---- MODULE Spec2Model ----
(***************************************************************************)
(* Model of server/routes.ts: session login with lockout                   *)
(* (POST /api/login, LocalStrategy verify callback) and the authorization  *)
(* gates (isAuthenticated, isSuperAdmin) in front of the /api/admin routes.*)
(*                                                                         *)
(* The verify callback reads loginAttempts, awaits storage.validateUser    *)
(* and writes loginAttempts afterwards; req.logIn completes in a callback. *)
(* Each await/callback boundary is a separate step of a request, so that   *)
(* requests overlap exactly where the event loop lets them overlap: a      *)
(* request of a session with a user waits for passport.deserializeUser, an *)
(* upload route for upload.single, a handler for each storage call, and a  *)
(* logout for the callbacks of req.logout and req.session.destroy.         *)
(***************************************************************************)
EXTENDS Integers, Sequences, FiniteSets, TLC

\* ---------------------------------------------------------------- constants
MAX_LOGIN_ATTEMPTS == 5
LOCK_TIME == 15 * 60 * 1000

\* ------------------------------------------------------------------- bounds
MaxTicks == 2        \* clock advances in one behaviour
MaxLogins == 6       \* credential checks started in one behaviour
MaxCreates == 2      \* records created in storage in one behaviour
MaxUploads == 2      \* files written to the uploads directory in one behaviour
MaxSaves == 2        \* setting saves in flight at once
MaxSignIns == 2      \* credential checks started in one behaviour of a
                     \* specification that is not about the lockout
MaxTyped == 1        \* named fields of the Settings page holding a typed
                     \* value at one time

\* ------------------------------------------------------------ input domains
SessionIds == {"s1", "s2"}
Missing == "<missing>"
Undefined == -1
NoUser == [id |-> 0, username |-> "", role |-> ""]
Idle == [stage |-> "idle"]

\* storage.users: the accounts held by storage (created outside routes.ts).
\* Account 2 / 'ankit' is the protected account of isSuperAdmin.
Users ==
  { [id |-> 1, username |-> "admin", role |-> "admin"],
    [id |-> 2, username |-> "ankit", role |-> "super_admin"],
    [id |-> 3, username |-> "owner", role |-> "super_admin"] }

\* storage.getUser(id), as used by passport.deserializeUser
getUser(id) ==
  IF \E u \in Users : u.id = id
    THEN CHOOSE u \in Users : u.id = id
    ELSE NoUser

\* storage.validateUser(username, password): the user, or nothing
validateUser(username, password) ==
  IF \E u \in Users : u.username = username /\ password = "secret"
    THEN CHOOSE u \in Users : u.username = username
    ELSE NoUser

\* loginSchema.parse(req.body): throws a ZodError unless both fields are there
loginSchemaParses(body) ==
  body.username # Missing /\ body.password # Missing

Usernames == {"admin", "ankit", "owner", "nobody"}
Passwords == {"secret", "guess"}

\* request bodies of POST /api/login
LoginNames == {"ankit"}
LoginBodies ==
  [username : LoginNames, password : Passwords]
    \cup { [username |-> Missing, password |-> "secret"],
           [username |-> "ankit", password |-> Missing] }
\* logins of two accounts: right and wrong passwords for 'ankit', the right
\* one for 'admin'
AuthedBodies ==
  [username : LoginNames, password : Passwords]
    \cup { [username |-> "admin", password |-> "secret"] }
GateBodies == [username : {"admin", "ankit", "owner"}, password : {"secret"}]

\* the modelled /api/admin routes
AdminRoutes ==
  {"GET /api/admin/settings", "GET /api/admin/contact-requests", "GET /api/admin/users"}

\* req.params.id behind isSuperAdmin: the only route with that gate,
\* GET /api/admin/users, has no :id in its path, so it is never defined
ParamIds == {Missing}

\* req.body.username behind isSuperAdmin
BodyUsernames == {Missing, "ankit"}

\* logins for an existing and for a non-existent username
TrackedBodies ==
  {[username |-> "ankit", password |-> "secret"],
   [username |-> "ankit", password |-> "guess"],
   [username |-> "nobody", password |-> "guess"]}

\* Clock steps: one millisecond, or up to the last millisecond of a lockout
TickSteps == {1, LOCK_TIME - 1}

\* ------------------------------------------------------------------- state
VARIABLES
  loginAttempts,  \* Map<string, {count, lockUntil?}>
  sessions,       \* session store: session id -> passport user id (0 = none)
  now,            \* Date.now()
  ticks,          \* clock advances so far
  logins,         \* credential checks started so far
  pending,        \* per client: its login request waiting on validateUser or
                  \* req.logIn (seenLocked, seenExpired: history of what it met
                  \* on arrival), or its logout request waiting on a callback
  calls,          \* per client: its other request in flight and what it waits for
  resp,           \* the response sent last
  streak,         \* history: failed credential checks since the last success
  fifthAt,        \* history: time of the 5th consecutive failure
  store,          \* storage: the collections, the settings and the id counters
  uploads,        \* number of files in the uploads directory
  page            \* the admin Settings page in one browser: query cache, forms,
                  \* mutation state, saves in flight

vars == <<loginAttempts, sessions, now, ticks, logins, pending, resp, streak, fifthAt,
          store, uploads, page, calls>>

\* ------------------------------------------------------------- Map helpers
NoAttempts == [count |-> 0, lockUntil |-> Undefined]

\* loginAttempts.get(username) || { count: 0 }
GetAttempts(m, username) ==
  IF username \in DOMAIN m THEN m[username] ELSE NoAttempts

\* mutant: one record shared by every username
MapSet_Shared(m, k, v) ==
  [x \in (DOMAIN m) \cup {k} |-> v]

MapSet(m, k, v) == [x \in (DOMAIN m) \cup {k} |-> IF x = k THEN v ELSE m[x]]

\* mutant: the record is not removed
MapDelete_Keeps(m, k) == m

MapDelete(m, k) == [x \in (DOMAIN m) \ {k} |-> m[x]]

\* JavaScript truthiness of an optional number
Truthy(x) == x # Undefined /\ x # 0

\* mutant: the lockout check is skipped
IsLockedOut_Never(attempts, t) == FALSE

\* mutant: the lockout still holds at lock-until itself
IsLockedOut_Inclusive(attempts, t) ==
  Truthy(attempts.lockUntil) /\ attempts.lockUntil >= t

\* attempts.lockUntil && attempts.lockUntil > Date.now()
IsLockedOut(attempts, t) ==
  Truthy(attempts.lockUntil) /\ attempts.lockUntil > t

\* the record written after a failed credential check
FailedAttempt(attempts, t) ==
  [count |-> attempts.count + 1,
   lockUntil |-> IF attempts.count + 1 >= MAX_LOGIN_ATTEMPTS
                   THEN t + LOCK_TIME ELSE Undefined]

\* mutant: no request counts as authenticated
reqIsAuthenticated_Never(caller) == FALSE

\* req.isAuthenticated(): passport has put a user on the request. caller is
\* the user id the session held when the request arrived (0 = none)
reqIsAuthenticated(caller) == caller # 0

\* req.user: the user passport.deserializeUser loaded for the request
reqUser(caller) == getUser(caller)

\* mutant: every error is reported as a server error
handleZodError_Always500(isZodError) == 500

\* mutant: every error is reported as a validation error
handleZodError_Always400(isZodError) == 400

\* handleZodError: 400 for a ZodError, 500 otherwise
handleZodError(isZodError) == IF isZodError THEN 400 ELSE 500

\* ------------------------------------------------------------- storage
\* the collections behind the resource routes
Collections == {"categories", "products", "productImages", "heroImages", "contactRequests"}

\* storage before any request
EmptyStore ==
  [items |-> [c \in Collections |-> << >>],
   settings |-> << >>,
   nextId |-> [c \in Collections |-> 1]]

\* records created so far
Created(st) ==
  (st.nextId["categories"] - 1) + (st.nextId["products"] - 1)
    + (st.nextId["productImages"] - 1) + (st.nextId["heroImages"] - 1)
    + (st.nextId["contactRequests"] - 1)

\* storage.getX(id) finds a record
Holds(st, c, id) == id \in DOMAIN st.items[c]

\* storage.createX(data): the record gets the next id of its collection
StorageCreate(st, c, data) ==
  [st EXCEPT !.items[c] = MapSet(@, st.nextId[c], data),
             !.nextId[c] = @ + 1]

\* storage.updateX(id, data) on a record the collection holds
StorageUpdate(st, c, id, data) ==
  [st EXCEPT !.items[c] = MapSet(@, id, data)]

\* storage.deleteX(id) on a record the collection holds
StorageDelete(st, c, id) ==
  [st EXCEPT !.items[c] = MapDelete(@, id)]

\* storage.upsertSetting({key, value})
StorageUpsertSetting(st, key, value) ==
  [st EXCEPT !.settings = MapSet(@, key, value)]

\* ------------------------------------------------- admin Settings page
\* the four forms and the setting each is reset to
Forms == {"company", "contact", "social", "maps"}
FormKey ==
  [f \in Forms |->
     CASE f = "company" -> "company_name"
       [] f = "contact" -> "company_address"
       [] f = "social" -> "social_facebook"
       [] OTHER -> "google_maps_url"]

\* useForm defaultValues
DefaultForms == [f \in Forms |-> [key |-> "", value |-> ""]]

\* what GET /api/admin/settings can return: no settings, or the four values
SettingsData ==
  {<< >>,
   [k \in {"company_name", "company_address", "social_facebook", "google_maps_url"} |->
      CASE k = "company_name" -> "Shivanshi"
        [] k = "company_address" -> "Delhi"
        [] k = "social_facebook" -> "fb.com/shivanshi"
        [] OTHER -> "maps.example/embed"]}

\* settingsObj[key] || ""
SettingValue(data, key) == IF key \in DOMAIN data THEN data[key] ELSE ""

\* the four form.reset calls
ResetForms(data) ==
  [f \in Forms |-> [key |-> FormKey[f], value |-> SettingValue(data, FormKey[f])]]

\* the Save buttons and the tab that shows each
SaveButtons ==
  {"company_name", "company_address", "company_phone", "company_email",
   "company_hours", "social_facebook", "social_instagram", "social_linkedin",
   "social_whatsapp", "google_maps_url"}
ButtonTab(b) ==
  CASE b = "company_name" -> "company"
    [] b \in {"company_address", "company_phone", "company_email", "company_hours"} -> "contact"
    [] b = "google_maps_url" -> "maps"
    [] OTHER -> "social"

\* the fields registered under a name of their own (FormField name=
\* "company_phone", ...): no defaultValues entry, undefined until typed into
NamedFields == SaveButtons \ {FormKey[f] : f \in Forms}
NoNamed == [n \in NamedFields |-> Missing]

\* The page before it is first opened: nothing cached, nothing in flight.
\* query is the cache entry of ["/api/admin/settings"] (status, data,
\* fetching); isPending is the state of the mutation the component observes,
\* rendered the value of isPending in the last render (the disabled prop of
\* the buttons on screen); named holds what the forms hold under the names of
\* the six other fields; mine counts the saves in flight that this mounted
\* page started, detached those started by earlier mounts; sent is the
\* payload of the last mutate call.
NoPage ==
  [mounted |-> FALSE,
   query |-> [status |-> "idle", data |-> << >>, fetching |-> FALSE],
   forms |-> DefaultForms,
   activeTab |-> "company",
   isPending |-> FALSE,
   rendered |-> FALSE,
   mine |-> 0,
   detached |-> 0,
   named |-> NoNamed,
   sent |-> [key |-> "", value |-> ""]]


\* The response sent last, with what the request met on arrival (caller,
\* parsed, valid, locked, expired), what its handler left behind (session,
\* record) and, for a resource route, what the request carried (id, body,
\* file, value) and which of its awaits threw (fault).
NoResp ==
  [route |-> "none", sid |-> "", status |-> 0, username |-> "", pid |-> "",
   user |-> 0, body |-> "", caller |-> 0, parsed |-> FALSE, valid |-> FALSE,
   locked |-> FALSE, expired |-> FALSE, checked |-> FALSE, ran |-> FALSE,
   session |-> 0, record |-> NoAttempts,
   id |-> 0, file |-> FALSE, value |-> "", fault |-> "none"]

\* No request in flight. A request in flight keeps what it read on arrival
\* (caller: the user id of its session), the middleware still ahead of it
\* (chain), its inputs, and for POST /api/admin/product-images the main
\* images it has still to demote (mains).
NoCall ==
  [stage |-> "idle", route |-> "none", caller |-> 0, chain |-> << >>,
   id |-> 0, body |-> "", file |-> FALSE, status |-> Missing, isMain |-> FALSE,
   productId |-> 0, pid |-> "", username |-> "", password |-> "",
   mains |-> << >>]

Init ==
  /\ loginAttempts = << >>
  /\ sessions = [s \in SessionIds |-> 0]
  /\ now = 0
  /\ ticks = 0
  /\ logins = 0
  /\ pending = [s \in SessionIds |-> Idle]
  /\ resp = NoResp
  /\ streak = [u \in Usernames |-> 0]
  /\ fifthAt = [u \in Usernames |-> 0]
  /\ store = EmptyStore
  /\ uploads = 0
  /\ page = NoPage
  /\ calls = [s \in SessionIds |-> NoCall]

\* Date.now() advances
Tick(d) ==
  /\ ticks < MaxTicks
  /\ now' = now + d
  /\ ticks' = ticks + 1
  /\ UNCHANGED <<loginAttempts, sessions, logins, pending, resp, streak, fifthAt>>
  /\ UNCHANGED <<store, uploads, page, calls>>

\* history: the request arrives within 15 minutes of the 5th consecutive failure
Late(username) ==
  /\ username \in Usernames
  /\ streak[username] >= MAX_LOGIN_ATTEMPTS
  /\ now < fifthAt[username] + LOCK_TIME

\* history: the lock-until read on arrival is still ahead / is over
SeenLocked(username) ==
  LET seen == GetAttempts(loginAttempts, username) IN
  seen.lockUntil # Undefined /\ now < seen.lockUntil

SeenExpired(username) ==
  LET seen == GetAttempts(loginAttempts, username) IN
  seen.lockUntil # Undefined /\ now >= seen.lockUntil


\* a response of POST /api/login sent before any credential check
ArrivalResp(sid, body, caller, status, user) ==
  [NoResp EXCEPT !.route = "POST /api/login", !.sid = sid, !.status = status,
                 !.username = body.username, !.user = user,
                 !.caller = caller,
                 !.parsed = (body.username # Missing /\ body.password # Missing),
                 !.valid = (validateUser(body.username, body.password) # NoUser),
                 !.locked = SeenLocked(body.username),
                 !.expired = SeenExpired(body.username),
                 !.session = sessions[sid],
                 !.record = GetAttempts(loginAttempts, body.username)]

\* a response of POST /api/login sent after the credential check; session and
\* record are the session and the attempts record the handler leaves
SettledResp(sid, e, status, user, session, record) ==
  [NoResp EXCEPT !.route = "POST /api/login", !.sid = sid, !.status = status,
                 !.username = e.username, !.user = user, !.parsed = TRUE,
                 !.valid = (validateUser(e.username, e.password) # NoUser),
                 !.locked = e.seenLocked, !.expired = e.seenExpired,
                 !.checked = TRUE, !.session = session, !.record = record]

\* The handler of POST /api/login up to the await in the verify callback:
\* parse the body, answer an authenticated request at once, check the
\* lockout, then start storage.validateUser with the attempts record read at
\* that moment.
LoginHandler(sid, body, caller) ==
  IF ~loginSchemaParses(body)
    THEN /\ resp' = ArrivalResp(sid, body, caller, handleZodError(TRUE), 0)
         /\ UNCHANGED <<loginAttempts, sessions, now, ticks, logins, pending, streak, fifthAt>>
    ELSE
      LET attempts == GetAttempts(loginAttempts, body.username) IN
      IF reqIsAuthenticated(caller) /\ reqUser(caller) # NoUser
        THEN /\ resp' = ArrivalResp(sid, body, caller, 200, reqUser(caller).id)
             /\ UNCHANGED <<loginAttempts, sessions, now, ticks, logins, pending, streak, fifthAt>>
        ELSE IF IsLockedOut(attempts, now)
          THEN /\ resp' = ArrivalResp(sid, body, caller, 429, 0)
               /\ UNCHANGED <<loginAttempts, sessions, now, ticks, logins, pending, streak, fifthAt>>
          ELSE /\ logins < MaxLogins
               /\ pending[sid] = Idle
               /\ logins' = logins + 1
               /\ pending' = [pending EXCEPT ![sid] =
                    [username |-> body.username, password |-> body.password,
                     attempts |-> attempts, stage |-> "verify", user |-> 0,
                     seenLocked |-> SeenLocked(body.username),
                     seenExpired |-> SeenExpired(body.username)]]
               /\ UNCHANGED <<loginAttempts, sessions, now, ticks, resp, streak, fifthAt>>

\* A client sends POST /api/login. A session without a user reaches the
\* handler at once (the client has one such login in flight at a time); a
\* session with a user first waits for passport.deserializeUser.
LoginBegin(sid, body) ==
  IF sessions[sid] = 0
    THEN /\ pending[sid] = Idle
         /\ LoginHandler(sid, body, 0)
         /\ UNCHANGED <<store, uploads, page, calls>>
    ELSE /\ calls[sid] = NoCall
         /\ calls' = [calls EXCEPT ![sid] =
              [NoCall EXCEPT !.stage = "deserialize", !.route = "POST /api/login",
                             !.caller = sessions[sid],
                             !.username = body.username, !.password = body.password]]
         /\ UNCHANGED <<loginAttempts, sessions, now, ticks, logins, pending, resp,
                        streak, fifthAt, store, uploads, page>>

\* storage.validateUser settles: the rest of the verify callback and the
\* passport.authenticate callback up to req.logIn.
VerifyDone(sid, throws) ==
  /\ pending[sid] # Idle
  /\ pending[sid].stage = "verify"
  /\ LET e == pending[sid]
         user == validateUser(e.username, e.password)
     IN
     IF throws
       THEN /\ UNCHANGED <<loginAttempts, streak, fifthAt>>
            /\ resp' = SettledResp(sid, e, 500, 0, sessions[sid],
                                      GetAttempts(loginAttempts', e.username))
            /\ pending' = [pending EXCEPT ![sid] = Idle]
       ELSE IF user = NoUser
         THEN /\ loginAttempts' = MapSet(loginAttempts, e.username, FailedAttempt(e.attempts, now))
              /\ resp' = SettledResp(sid, e, 401, 0, sessions[sid],
                                        GetAttempts(loginAttempts', e.username))
              /\ pending' = [pending EXCEPT ![sid] = Idle]
              /\ streak' = [streak EXCEPT ![e.username] =
                              IF @ < MAX_LOGIN_ATTEMPTS THEN @ + 1 ELSE @]
              /\ fifthAt' = [fifthAt EXCEPT ![e.username] =
                              IF streak[e.username] = MAX_LOGIN_ATTEMPTS - 1 THEN now ELSE @]
         ELSE /\ loginAttempts' = MapDelete(loginAttempts, e.username)
              /\ pending' = [pending EXCEPT ![sid] = [e EXCEPT !.stage = "logIn", !.user = user.id]]
              /\ streak' = [streak EXCEPT ![e.username] = 0]
              /\ UNCHANGED <<resp, fifthAt>>
  /\ UNCHANGED <<sessions, now, ticks, logins>>
  /\ UNCHANGED <<store, uploads, page, calls>>

\* req.logIn calls back: the session is established and 200 is sent
LogInDone(sid, loginError) ==
  /\ pending[sid] # Idle
  /\ pending[sid].stage = "logIn"
  /\ LET e == pending[sid] IN
     IF loginError
       THEN /\ UNCHANGED <<loginAttempts, sessions>>
            /\ resp' = SettledResp(sid, e, 500, 0, sessions'[sid],
                                      GetAttempts(loginAttempts', e.username))
       ELSE /\ sessions' = [sessions EXCEPT ![sid] = e.user]
            /\ loginAttempts' = IF e.username \in DOMAIN loginAttempts
                                  THEN MapDelete(loginAttempts, e.username)
                                  ELSE loginAttempts
            /\ resp' = SettledResp(sid, e, 200, e.user, sessions'[sid],
                                      GetAttempts(loginAttempts', e.username))
  /\ pending' = [pending EXCEPT ![sid] = Idle]
  /\ UNCHANGED <<now, ticks, logins, streak, fifthAt>>
  /\ UNCHANGED <<store, uploads, page, calls>>

\* ---------------------------------------------------- authorization gates
PassGate == 0

\* isAuthenticated middleware: next(), or 401
isAuthenticated(authenticated) ==
  IF authenticated THEN PassGate ELSE 401

\* mutant: any authenticated session passes the role check
isSuperAdmin_AnyRole(authenticated, user, pid, bodyUsername) ==
  IF authenticated
    THEN IF (pid = "2" \/ bodyUsername = "ankit") /\ user.username # "ankit"
           THEN 403
           ELSE PassGate
    ELSE 403

\* mutant: the protected account is not protected
isSuperAdmin_Unprotected(authenticated, user, pid, bodyUsername) ==
  IF authenticated /\ user.role = "super_admin" THEN PassGate ELSE 403

\* isSuperAdmin middleware: next(), or 403
isSuperAdmin(authenticated, user, pid, bodyUsername) ==
  IF authenticated /\ user.role = "super_admin"
    THEN IF (pid = "2" \/ bodyUsername = "ankit") /\ user.username # "ankit"
           THEN 403
           ELSE PassGate
    ELSE 403

\* the middleware in front of each modelled /api/admin route
RouteGate ==
  [r \in AdminRoutes |-> IF r = "GET /api/admin/users" THEN "isSuperAdmin" ELSE "isAuthenticated"]

\* what each handler sends when its storage call returns
RoutePayload ==
  [r \in AdminRoutes |->
     CASE r = "GET /api/admin/users" -> "users"
       [] r = "GET /api/admin/settings" -> "settings"
       [] OTHER -> "contactRequests"]


\* -------------------------------------------------------- resource routes
\* one row per route: gate and upload middleware, whether the handler asks
\* for req.file, whether it parses the body with the resource's schema, its
\* storage operation, its collection, and whether its catch block calls
\* handleZodError (else it sends 500 itself)
Row(gate, upload, needsFile, validates, op, coll, zodCatch) ==
  [gate |-> gate, upload |-> upload, needsFile |-> needsFile,
   validates |-> validates, op |-> op, coll |-> coll, zodCatch |-> zodCatch]

Routes ==
  [r \in {"GET /api/categories/:id"} |->
     Row("none", FALSE, FALSE, FALSE, "get", "categories", FALSE)]
  @@ [r \in {"GET /api/products/:id"} |->
     Row("none", FALSE, FALSE, FALSE, "getProduct", "products", FALSE)]
  @@ [r \in {"POST /api/contact"} |->
     Row("none", FALSE, FALSE, TRUE, "create", "contactRequests", TRUE)]
  @@ [r \in {"POST /api/admin/categories"} |->
     Row("isAuthenticated", TRUE, FALSE, TRUE, "create", "categories", TRUE)]
  @@ [r \in {"PUT /api/admin/categories/:id"} |->
     Row("isAuthenticated", TRUE, FALSE, FALSE, "update", "categories", TRUE)]
  @@ [r \in {"DELETE /api/admin/categories/:id"} |->
     Row("isAuthenticated", FALSE, FALSE, FALSE, "delete", "categories", FALSE)]
  @@ [r \in {"POST /api/admin/products"} |->
     Row("isAuthenticated", FALSE, FALSE, TRUE, "create", "products", TRUE)]
  @@ [r \in {"PUT /api/admin/products/:id"} |->
     Row("isAuthenticated", FALSE, FALSE, FALSE, "update", "products", TRUE)]
  @@ [r \in {"DELETE /api/admin/products/:id"} |->
     Row("isAuthenticated", FALSE, FALSE, FALSE, "delete", "products", FALSE)]
  @@ [r \in {"POST /api/admin/product-images"} |->
     Row("isAuthenticated", TRUE, TRUE, TRUE, "createImage", "productImages", TRUE)]
  @@ [r \in {"DELETE /api/admin/product-images/:id"} |->
     Row("isAuthenticated", FALSE, FALSE, FALSE, "delete", "productImages", FALSE)]
  @@ [r \in {"POST /api/admin/hero-images"} |->
     Row("isAuthenticated", TRUE, TRUE, TRUE, "create", "heroImages", TRUE)]
  @@ [r \in {"PUT /api/admin/hero-images/:id"} |->
     Row("isAuthenticated", TRUE, FALSE, FALSE, "update", "heroImages", TRUE)]
  @@ [r \in {"DELETE /api/admin/hero-images/:id"} |->
     Row("isAuthenticated", FALSE, FALSE, FALSE, "delete", "heroImages", FALSE)]
  @@ [r \in {"PUT /api/admin/contact-requests/:id/status"} |->
     Row("isAuthenticated", FALSE, FALSE, FALSE, "status", "contactRequests", FALSE)]
  @@ [r \in {"DELETE /api/admin/contact-requests/:id"} |->
     Row("isAuthenticated", FALSE, FALSE, FALSE, "delete", "contactRequests", FALSE)]
  @@ [r \in {"POST /api/admin/settings"} |->
     Row("isAuthenticated", FALSE, FALSE, TRUE, "upsert", "settings", TRUE)]
  @@ [r \in {"POST /api/admin/settings/logo"} |->
     Row("isAuthenticated", TRUE, TRUE, FALSE, "logo", "settings", FALSE)]

ResourceRoutes == DOMAIN Routes

\* the status values PUT /api/admin/contact-requests/:id/status accepts
ValidStatuses == {"new", "processing", "completed", "archived"}

\* request inputs: ids (NoId where the route has no :id, UnknownId never
\* held), body (does the resource's schema accept it), status values
NoId == 0
UnknownId == 99
ReqIds == {1, UnknownId}
Bodies == {"valid", "invalid"}
StatusInputs == {Missing, "", "done", "processing"}

\* the products an uploaded image can belong to
ProductIds == {1, 2}

\* the routes with upload.single in their chain
UploadRoutes == {r \in DOMAIN Routes : Routes[r].upload}

\* the schema of the route's resource accepts the assembled body
schemaParses(body) == body = "valid"

\* the inputs a route reads
ResourceRequests(route) ==
  LET info == Routes[route] IN
  [id : IF info.op \in {"get", "getProduct", "update", "delete", "status"}
          THEN ReqIds ELSE {NoId},
   body : IF info.op \in {"create", "update", "createImage", "upsert"} THEN Bodies ELSE {"none"},
   file : IF info.upload THEN BOOLEAN ELSE {FALSE},
   status : IF info.op = "status" THEN StatusInputs ELSE {Missing},
   isMain : IF info.op = "createImage" THEN BOOLEAN ELSE {FALSE},
   productId : IF info.op = "createImage" THEN ProductIds ELSE {0}]


\* mutant: the upload middleware is registered before the gate
Middleware_UploadFirst(route) ==
  (IF Routes[route].upload THEN <<"upload">> ELSE << >>)
    \o (IF Routes[route].gate = "isAuthenticated" THEN <<"isAuthenticated">> ELSE << >>)

\* the middleware of a route, in the order app.METHOD lists it
Middleware(route) ==
  (IF Routes[route].gate = "isAuthenticated" THEN <<"isAuthenticated">> ELSE << >>)
    \o (IF Routes[route].upload THEN <<"upload">> ELSE << >>)

\* Run the chain for request c up to its first wait: a gate stops it with
\* 401 or 403, upload.single makes it wait for the request body (rest is the
\* middleware after it), an empty chain hands over to the handler.
RECURSIVE RunMiddleware(_, _)
RunMiddleware(chain, c) ==
  IF chain = << >>
    THEN [status |-> PassGate, wait |-> FALSE, rest |-> << >>]
    ELSE CASE Head(chain) = "isAuthenticated" ->
                LET gate == isAuthenticated(reqIsAuthenticated(c.caller)) IN
                IF gate # PassGate
                  THEN [status |-> gate, wait |-> FALSE, rest |-> << >>]
                  ELSE RunMiddleware(Tail(chain), c)
           [] Head(chain) = "isSuperAdmin" ->
                LET gate == isSuperAdmin(reqIsAuthenticated(c.caller), reqUser(c.caller),
                                         c.pid, c.username) IN
                IF gate # PassGate
                  THEN [status |-> gate, wait |-> FALSE, rest |-> << >>]
                  ELSE RunMiddleware(Tail(chain), c)
           [] OTHER ->
                [status |-> PassGate, wait |-> TRUE, rest |-> Tail(chain)]

\* the orders in which storage can return the records of a set of ids: the
\* handler's loop follows the returned array, whose order storage decides
Orders(S) ==
  {o \in [1..Cardinality(S) -> S] : \A i, j \in 1..Cardinality(S) : o[i] = o[j] => i = j}

\* storage.getProductImages(productId), narrowed to the images with isMain
MainImages(st, productId) ==
  {i \in DOMAIN st.items["productImages"] :
     /\ st.items["productImages"][i].productId = productId
     /\ st.items["productImages"][i].isMain}

\* storage.updateProductImage(id, {isMain: false})
DemoteMainImage(st, id) ==
  IF Holds(st, "productImages", id)
    THEN [st EXCEPT !.items["productImages"][id].isMain = FALSE]
    ELSE st

\* what the handler sends and what it leaves in storage
Answer(status, st) == [status |-> status, store |-> st]

\* mutant: the file check of the upload handlers is missing
FileMissing_Ignored(info, hasFile) == FALSE

\* if (!req.file) return 400
FileMissing(info, hasFile) == info.needsFile /\ ~hasFile

\* mutant: every status value is accepted
StatusRejected_Never(status) == FALSE

\* if (!status || ![...].includes(status)) return 400
StatusRejected(status) ==
  status = Missing \/ status = "" \/ status \notin ValidStatuses

\* What a resource handler does before its first storage call: the file
\* check, the schema parse, the status check. PassGate when it goes on.
Precheck(info, c) ==
  IF FileMissing(info, c.file)
    THEN 400
    ELSE IF info.validates /\ ~schemaParses(c.body)
      THEN handleZodError(TRUE)
      ELSE IF info.op = "status" /\ StatusRejected(c.status)
        THEN 400
        ELSE PassGate

\* PUT /api/admin/contact-requests/:id/status once
\* storage.updateContactRequestStatus has settled
StatusHandler(st, id, status, fails) ==
  IF fails
    THEN Answer(500, st)
    ELSE IF ~Holds(st, "contactRequests", id)
      THEN Answer(404, st)
      ELSE Answer(200, StorageUpdate(st, "contactRequests", id, status))

\* mutant: by-id handlers answer 200 whatever storage returns
ByIdHandler_NoAbsence(st, info, id, body, fails) ==
  IF fails
    THEN Answer(IF info.zodCatch THEN handleZodError(FALSE) ELSE 500, st)
    ELSE Answer(200, st)

\* get, update and delete by id once the storage call has settled: 404 when
\* it returns nothing
ByIdHandler(st, info, id, body, fails) ==
  IF fails
    THEN Answer(IF info.zodCatch THEN handleZodError(FALSE) ELSE 500, st)
    ELSE IF ~Holds(st, info.coll, id)
      THEN Answer(404, st)
      ELSE CASE info.op = "get" -> Answer(200, st)
             [] info.op = "update" -> Answer(200, StorageUpdate(st, info.coll, id, body))
             [] OTHER -> Answer(200, StorageDelete(st, info.coll, id))

\* the handlers that create a record or a setting, once their last storage
\* call has settled
CreateHandler(st, info, c, fails) ==
  IF fails
    THEN Answer(IF info.zodCatch THEN handleZodError(FALSE) ELSE 500, st)
    ELSE CASE info.op = "create" ->
                Answer(201, StorageCreate(st, info.coll,
                         IF info.coll = "contactRequests" THEN "new" ELSE c.body))
           [] info.op = "createImage" ->
                Answer(201, StorageCreate(st, "productImages",
                         [productId |-> c.productId, isMain |-> c.isMain]))
           [] info.op = "upsert" ->
                Answer(201, StorageUpsertSetting(st, "company_name", c.body))
           [] OTHER ->
                Answer(201, StorageUpsertSetting(st, "company_logo", "/uploads/logo"))

\* the handler of a resource route once its last storage call has settled
\* (for GET /api/products/:id that is storage.getCategory)
ResourceHandler(st, c, fails) ==
  LET info == Routes[c.route] IN
  CASE info.op \in {"get", "update", "delete"} ->
         ByIdHandler(st, info, c.id, c.body, fails)
    [] info.op = "getProduct" -> Answer(IF fails THEN 500 ELSE 200, st)
    [] info.op = "status" -> StatusHandler(st, c.id, c.status, fails)
    [] OTHER -> CreateHandler(st, info, c, fails)

\* ------------------------------------------------------ requests in flight
\* the response to request c of client sid; session is what the session
\* holds when the response is sent
Reply(sid, c, status, ran, fault) ==
  [NoResp EXCEPT !.route = c.route, !.sid = sid, !.status = status,
                 !.caller = c.caller, !.session = sessions[sid], !.ran = ran,
                 !.pid = c.pid, !.username = c.username,
                 !.id = c.id, !.body = c.body, !.file = c.file,
                 !.value = c.status, !.fault = fault]

\* a run of a request ends in a response, or in a wait
Replies(r) == [wait |-> FALSE, resp |-> r, call |-> NoCall]
Waits(c) == [wait |-> TRUE, resp |-> NoResp, call |-> c]

\* the handler of request c up to its first await
HandlerStart(sid, c) ==
  CASE c.route = "GET /api/current-user" ->
         Replies(IF ~reqIsAuthenticated(c.caller) \/ reqUser(c.caller) = NoUser
                   THEN [Reply(sid, c, 401, FALSE, "none") EXCEPT
                           !.body = "Not authenticated"]
                   ELSE [Reply(sid, c, 200, FALSE, "none") EXCEPT
                           !.user = reqUser(c.caller).id])
    [] c.route \in AdminRoutes ->
         Waits([c EXCEPT !.stage = "storage"])
    [] OTHER ->
         LET info == Routes[c.route]
             pre == Precheck(info, c)
         IN IF pre # PassGate
              THEN Replies(Reply(sid, c, pre, TRUE, "none"))
              ELSE Waits([c EXCEPT !.stage =
                            CASE info.op = "createImage" /\ c.isMain -> "images"
                              [] info.op = "getProduct" -> "product"
                              [] OTHER -> "storage"])

\* request c from the middleware still ahead of it to its next wait
Enter(sid, c) ==
  LET m == RunMiddleware(c.chain, c) IN
  IF m.status # PassGate
    THEN Replies(Reply(sid, c, m.status, FALSE, "none"))
    ELSE IF m.wait
      THEN Waits([c EXCEPT !.stage = "upload", !.chain = m.rest])
      ELSE HandlerStart(sid, [c EXCEPT !.chain = << >>])

\* A request arrives. The session is read once, now: with a user in it the
\* request waits for passport.deserializeUser; without one it runs on, and
\* is answered at once or becomes the client's request in flight.
Arrive(sid, c) ==
  /\ IF c.caller # 0
       THEN /\ calls[sid] = NoCall
            /\ calls' = [calls EXCEPT ![sid] = [c EXCEPT !.stage = "deserialize"]]
            /\ UNCHANGED resp
       ELSE LET o == Enter(sid, c) IN
            IF o.wait
              THEN /\ calls[sid] = NoCall
                   /\ calls' = [calls EXCEPT ![sid] = o.call]
                   /\ UNCHANGED resp
              ELSE /\ resp' = o.resp
                   /\ UNCHANGED calls
  /\ UNCHANGED <<loginAttempts, sessions, now, ticks, logins, pending, streak, fifthAt,
                 store, uploads, page>>

\* the request in flight runs on after a wait
Continue(sid, c) ==
  LET o == Enter(sid, c) IN
  IF o.wait
    THEN /\ calls' = [calls EXCEPT ![sid] = o.call]
         /\ UNCHANGED resp
    ELSE /\ resp' = o.resp
         /\ calls' = [calls EXCEPT ![sid] = NoCall]

\* the request in flight is answered
CallEnds(sid, r) ==
  /\ resp' = r
  /\ calls' = [calls EXCEPT ![sid] = NoCall]

\* GET /api/current-user
CurrentUser(sid) ==
  Arrive(sid, [NoCall EXCEPT !.route = "GET /api/current-user",
                             !.caller = sessions[sid]])

\* a request to an /api/admin route: its gate, then its handler
AdminRequest(sid, route, pid, bodyUsername) ==
  Arrive(sid, [NoCall EXCEPT !.route = route, !.caller = sessions[sid],
                             !.chain = <<RouteGate[route]>>,
                             !.pid = pid, !.username = bodyUsername])

\* files and records that requests in flight may still add
FilesInFlight ==
  Cardinality({s \in SessionIds :
                 calls[s].file /\ calls[s].stage \in {"deserialize", "upload"}})
CreatesInFlight ==
  Cardinality({s \in SessionIds :
                 /\ calls[s].route \in ResourceRoutes
                 /\ Routes[calls[s].route].op \in {"create", "createImage"}})

\* a request to a resource route: its middleware, then its handler
ResourceRequest(sid, route, req) ==
  /\ req.file => uploads + FilesInFlight < MaxUploads
  /\ Routes[route].op \in {"create", "createImage"}
       => Created(store) + CreatesInFlight < MaxCreates
  /\ Arrive(sid, [NoCall EXCEPT !.route = route, !.caller = sessions[sid],
                                !.chain = Middleware(route),
                                !.id = req.id, !.body = req.body, !.file = req.file,
                                !.status = req.status, !.isMain = req.isMain,
                                !.productId = req.productId])

\* passport.deserializeUser settles: storage.getUser threw and the request
\* fails with 500 before any middleware or handler of its route, or the user
\* is on the request and the request runs on
Deserialized(sid, throws) ==
  /\ calls[sid].stage = "deserialize"
  /\ LET c == calls[sid]
         body == [username |-> c.username, password |-> c.password]
     IN
     IF c.route = "POST /api/login"
       THEN /\ IF throws
                 THEN /\ resp' = [ArrivalResp(sid, body, c.caller, 500, 0) EXCEPT
                                    !.fault = "deserialize"]
                      /\ UNCHANGED <<loginAttempts, sessions, now, ticks, logins,
                                     pending, streak, fifthAt>>
                 ELSE LoginHandler(sid, body, c.caller)
            /\ calls' = [calls EXCEPT ![sid] = NoCall]
       ELSE /\ IF throws
                 THEN CallEnds(sid, Reply(sid, c, 500, FALSE, "deserialize"))
                 ELSE Continue(sid, c)
            /\ UNCHANGED <<loginAttempts, sessions, now, ticks, logins, pending,
                           streak, fifthAt>>
  /\ UNCHANGED <<store, uploads, page>>

\* upload.single has read the request body: the file it carried is in the
\* uploads directory, and the request runs on
UploadDone(sid) ==
  /\ calls[sid].stage = "upload"
  /\ uploads' = IF calls[sid].file THEN uploads + 1 ELSE uploads
  /\ Continue(sid, calls[sid])
  /\ UNCHANGED <<loginAttempts, sessions, now, ticks, logins, pending, streak, fifthAt,
                 store, page>>

\* storage.getProduct settles in GET /api/products/:id: 500 when it threw,
\* 404 when it returned nothing; a product with a categoryId (linked) waits
\* for storage.getCategory, one without is answered
ProductRead(sid, throws, linked) ==
  /\ calls[sid].stage = "product"
  /\ LET c == calls[sid] IN
     IF throws
       THEN CallEnds(sid, Reply(sid, c, 500, TRUE, "product"))
       ELSE IF ~Holds(store, "products", c.id)
         THEN CallEnds(sid, Reply(sid, c, 404, TRUE, "none"))
         ELSE IF linked
           THEN /\ calls' = [calls EXCEPT ![sid] = [c EXCEPT !.stage = "storage"]]
                /\ UNCHANGED resp
           ELSE CallEnds(sid, Reply(sid, c, 200, TRUE, "none"))
  /\ UNCHANGED <<loginAttempts, sessions, now, ticks, logins, pending, streak, fifthAt,
                 store, uploads, page>>

\* storage.getProductImages settles in POST /api/admin/product-images: the
\* loop will visit the main images in the order storage returned them
ImagesRead(sid, throws) ==
  /\ calls[sid].stage = "images"
  /\ LET c == calls[sid] IN
     IF throws
       THEN CallEnds(sid, Reply(sid, c, handleZodError(FALSE), TRUE, "images"))
       ELSE /\ \E mains \in Orders(MainImages(store, c.productId)) :
                 calls' = [calls EXCEPT ![sid] =
                   [c EXCEPT !.stage = IF mains = << >> THEN "storage" ELSE "demote",
                             !.mains = mains]]
            /\ UNCHANGED resp
  /\ UNCHANGED <<loginAttempts, sessions, now, ticks, logins, pending, streak, fifthAt,
                 store, uploads, page>>

\* one storage.updateProductImage of the loop settles
DemoteDone(sid, throws) ==
  /\ calls[sid].stage = "demote"
  /\ LET c == calls[sid] IN
     IF throws
       THEN /\ CallEnds(sid, Reply(sid, c, handleZodError(FALSE), TRUE, "demote"))
            /\ UNCHANGED store
       ELSE /\ store' = DemoteMainImage(store, Head(c.mains))
            /\ calls' = [calls EXCEPT ![sid] =
                 [c EXCEPT !.stage = IF Tail(c.mains) = << >> THEN "storage" ELSE "demote",
                           !.mains = Tail(c.mains)]]
            /\ UNCHANGED resp
  /\ UNCHANGED <<loginAttempts, sessions, now, ticks, logins, pending, streak, fifthAt,
                 uploads, page>>

\* the last storage call of the handler settles and the response is sent
StorageDone(sid, throws) ==
  /\ calls[sid].stage = "storage"
  /\ LET c == calls[sid] IN
     IF c.route \in AdminRoutes
       THEN /\ resp' = IF throws
                         THEN Reply(sid, c, 500, TRUE, "storage")
                         ELSE [Reply(sid, c, 200, TRUE, "none") EXCEPT
                                 !.body = RoutePayload[c.route]]
            /\ UNCHANGED store
       ELSE LET result == ResourceHandler(store, c, throws) IN
            /\ store' = result.store
            /\ resp' = Reply(sid, c, result.status, TRUE,
                             IF throws THEN "storage" ELSE "none")
  /\ calls' = [calls EXCEPT ![sid] = NoCall]
  /\ UNCHANGED <<loginAttempts, sessions, now, ticks, logins, pending, streak, fifthAt,
                 uploads, page>>

\* ------------------------------------------------------------------ logout
\* how req.logout can call back: without an error, or with one, the stored
\* session as it was when the callback ran or without its user
LogoutOutcomes == {"ok", "errorKept", "errorCleared"}

\* mutant: the session keeps its user
reqLogout_Keeps(s, sid) == s

\* req.logout: the session holds no user any more
reqLogout(s, sid) == [s EXCEPT ![sid] = 0]

\* a response of POST /api/logout
LogoutResp(sid, caller, status, message, session) ==
  [NoResp EXCEPT !.route = "POST /api/logout", !.sid = sid, !.status = status,
                 !.caller = caller, !.body = message, !.session = session]

\* the logout request of a client waiting on a callback
LogoutWaits(stage, caller) ==
  [username |-> "", password |-> "", attempts |-> NoAttempts,
   stage |-> stage, user |-> caller,
   seenLocked |-> FALSE, seenExpired |-> FALSE]

\* the handler of POST /api/logout up to req.logout: a request without a
\* user is answered at once. req.logout takes the user off the session; the
\* stored session loses it at once (eager) or by the time of the callback,
\* as passport and the session store decide
LogoutHandler(sid, caller, eager) ==
  IF reqIsAuthenticated(caller)
    THEN /\ pending' = [pending EXCEPT ![sid] = LogoutWaits("logout", caller)]
         /\ sessions' = IF eager THEN reqLogout(sessions, sid) ELSE sessions
         /\ UNCHANGED resp
    ELSE /\ resp' = LogoutResp(sid, caller, 200, "Not logged in", sessions[sid])
         /\ pending' = [pending EXCEPT ![sid] = Idle]
         /\ UNCHANGED sessions

\* A client sends POST /api/logout: a session with a user first waits for
\* passport.deserializeUser
LogoutBegin(sid) ==
  /\ pending[sid] = Idle
  /\ IF sessions[sid] # 0
       THEN /\ pending' = [pending EXCEPT ![sid] = LogoutWaits("deserialize", sessions[sid])]
            /\ UNCHANGED <<resp, sessions>>
       ELSE LogoutHandler(sid, 0, FALSE)
  /\ UNCHANGED <<loginAttempts, now, ticks, logins, streak, fifthAt>>
  /\ UNCHANGED <<store, uploads, page, calls>>

\* passport.deserializeUser settles for the logout request; the handler
\* runs and calls req.logout
LogoutDeserialized(sid, throws, eager) ==
  /\ pending[sid] # Idle
  /\ pending[sid].stage = "deserialize"
  /\ IF throws
       THEN /\ resp' = [LogoutResp(sid, pending[sid].user, 500, "", sessions[sid]) EXCEPT
                          !.fault = "deserialize"]
            /\ pending' = [pending EXCEPT ![sid] = Idle]
            /\ UNCHANGED sessions
       ELSE LogoutHandler(sid, pending[sid].user, eager)
  /\ UNCHANGED <<loginAttempts, now, ticks, logins, streak, fifthAt>>
  /\ UNCHANGED <<store, uploads, page, calls>>

\* the callback of req.logout: 500 on an error, else the stored session is
\* without its user (if it was not already) and req.session.destroy is called
LogoutDone(sid, outcome) ==
  /\ pending[sid] # Idle
  /\ pending[sid].stage = "logout"
  /\ sessions' = IF outcome = "errorKept" THEN sessions ELSE reqLogout(sessions, sid)
  /\ IF outcome = "ok"
       THEN /\ pending' = [pending EXCEPT ![sid] = LogoutWaits("destroy", pending[sid].user)]
            /\ UNCHANGED resp
       ELSE /\ resp' = LogoutResp(sid, pending[sid].user, 500, "Failed to logout",
                                  sessions'[sid])
            /\ pending' = [pending EXCEPT ![sid] = Idle]
  /\ UNCHANGED <<loginAttempts, now, ticks, logins, streak, fifthAt>>
  /\ UNCHANGED <<store, uploads, page, calls>>

\* the callback of req.session.destroy: the response of the logout
DestroyDone(sid, destroyError) ==
  /\ pending[sid] # Idle
  /\ pending[sid].stage = "destroy"
  /\ resp' = IF destroyError
               THEN LogoutResp(sid, pending[sid].user, 500, "Failed to destroy session",
                               sessions[sid])
               ELSE LogoutResp(sid, pending[sid].user, 200, "Logged out successfully",
                               sessions[sid])
  /\ pending' = [pending EXCEPT ![sid] = Idle]
  /\ UNCHANGED <<loginAttempts, sessions, now, ticks, logins, streak, fifthAt>>
  /\ UNCHANGED <<store, uploads, page, calls>>

\* ------------------------------------------ admin Settings page: actions
\* what the user types into a field
TypedValues == {"typed"}

\* useQuery's isLoading: the first fetch is under way and there is no data
isLoading(p) == p.query.status = "loading"

\* the page changes, the server does not
PageBecomes(p) ==
  /\ page' = p
  /\ UNCHANGED <<loginAttempts, sessions, now, ticks, logins, pending, resp, streak,
                 fifthAt, store, uploads, calls>>

\* the forms after the first render: the useState initializer resets them
\* when the query is not loading and has data
InitialForms(q) ==
  IF q.status # "loading" /\ q.status = "loaded"
    THEN ResetForms(q.data)
    ELSE DefaultForms

\* the Settings component mounts: useQuery fetches when nothing is cached (or
\* refetches what is cached), the forms and the mutation start afresh
Mount(refetch) ==
  /\ ~page.mounted
  /\ LET q == CASE page.query.status = "idle" ->
                     [status |-> "loading", data |-> << >>, fetching |-> TRUE]
                [] page.query.status = "loaded" /\ refetch ->
                     [page.query EXCEPT !.fetching = TRUE]
                [] OTHER -> page.query
     IN PageBecomes([page EXCEPT !.mounted = TRUE, !.query = q,
                                 !.forms = InitialForms(q),
                                 !.named = NoNamed,
                                 !.activeTab = "company",
                                 !.isPending = FALSE, !.rendered = FALSE,
                                 !.mine = 0])

\* the component unmounts: its forms and its mutation observer are gone, its
\* requests stay in flight
Unmount ==
  /\ page.mounted
  /\ PageBecomes([page EXCEPT !.mounted = FALSE, !.forms = DefaultForms,
                              !.named = NoNamed,
                              !.activeTab = "company", !.isPending = FALSE,
                              !.rendered = FALSE,
                              !.mine = 0, !.detached = page.detached + page.mine])

\* GET /api/admin/settings answers; a mounted component renders again, and a
\* useState initializer does not run again
QueryDone(data) ==
  /\ page.query.fetching
  /\ PageBecomes([page EXCEPT !.query = [status |-> "loaded", data |-> data,
                                         fetching |-> FALSE],
                              !.rendered = IF page.mounted THEN page.isPending ELSE @])

\* setActiveTab: the component renders again
SetTab(tab) ==
  /\ page.mounted
  /\ tab # page.activeTab
  /\ PageBecomes([page EXCEPT !.activeTab = tab, !.rendered = page.isPending])

\* the user types into the value field of the form on the active tab
EditField(f, v) ==
  /\ page.mounted /\ ~isLoading(page)
  /\ page.activeTab = f
  /\ PageBecomes([page EXCEPT !.forms[f].value = v])

\* the user types into one of the named fields of the active tab; at most
\* MaxTyped of them hold a typed value at a time
EditNamed(n, v) ==
  /\ page.mounted /\ ~isLoading(page)
  /\ page.activeTab = ButtonTab(n)
  /\ page.named[n] = Missing
       => Cardinality({m \in NamedFields : page.named[m] # Missing}) < MaxTyped
  /\ PageBecomes([page EXCEPT !.named[n] = v])

\* the component renders again after the mutation changed state
Render ==
  /\ page.mounted
  /\ page.rendered # page.isPending
  /\ PageBecomes([page EXCEPT !.rendered = page.isPending])

\* disabled={updateSettingMutation.isPending}, as last rendered
SaveDisabled(p) == p.rendered

\* What the click handler of a button passes to saveSetting: getValues().value
\* for the setting its form is reset to, getValues(name) for the others,
\* undefined when nothing was typed there. No handler validates: none goes
\* through handleSubmit, so the zodResolver of the forms never runs.
SavePayload(p, b) ==
  [key |-> b,
   value |-> IF FormKey[ButtonTab(b)] = b THEN p.forms[ButtonTab(b)].value ELSE p.named[b]]

\* a click on a Save button that is not rendered disabled: saveSetting ->
\* updateSettingMutation.mutate; the buttons are disabled by a later render
ClickSave(b) ==
  /\ page.mounted /\ ~isLoading(page)
  /\ page.activeTab = ButtonTab(b)
  /\ ~SaveDisabled(page)
  /\ page.mine + page.detached < MaxSaves
  /\ PageBecomes([page EXCEPT !.isPending = TRUE, !.mine = @ + 1,
                              !.sent = SavePayload(page, b)])

\* which save in flight a response of POST /api/admin/settings answers: the
\* one this mount started last (the one its mutation observer follows), one
\* it started before that, or one of an earlier mount
Settles == {"latest", "earlier", "detached"}

\* POST /api/admin/settings answers a save; onSuccess invalidates the
\* settings query, which a mounted page fetches again
SaveSettled(which, ok) ==
  /\ CASE which = "latest" -> page.isPending
       [] which = "earlier" -> page.mine > (IF page.isPending THEN 1 ELSE 0)
       [] OTHER -> page.detached > 0
  /\ LET q == IF ok /\ page.mounted
                THEN [page.query EXCEPT !.fetching = TRUE]
                ELSE page.query
     IN CASE which = "latest" ->
               PageBecomes([page EXCEPT !.mine = @ - 1, !.isPending = FALSE, !.query = q])
          [] which = "earlier" ->
               PageBecomes([page EXCEPT !.mine = @ - 1, !.query = q])
          [] OTHER ->
               PageBecomes([page EXCEPT !.detached = @ - 1, !.query = q])

Next ==
  \/ \E d \in TickSteps : Tick(d)
  \/ \E sid \in SessionIds, body \in LoginBodies : LoginBegin(sid, body)
  \/ \E sid \in SessionIds, throws \in BOOLEAN : Deserialized(sid, throws)
  \/ \E sid \in SessionIds, throws \in BOOLEAN : VerifyDone(sid, throws)
  \/ \E sid \in SessionIds, loginError \in BOOLEAN : LogInDone(sid, loginError)

Spec == Init /\ [][Next]_vars

\* the gates, over sessions obtained by correct logins
NextGate ==
  \/ \E sid \in SessionIds, body \in GateBodies :
       logins < MaxSignIns /\ LoginBegin(sid, body)
  \/ \E sid \in SessionIds : VerifyDone(sid, FALSE)
  \/ \E sid \in SessionIds : LogInDone(sid, FALSE)
  \/ \E sid \in SessionIds, route \in AdminRoutes, pid \in ParamIds,
        bodyUsername \in BodyUsernames :
        AdminRequest(sid, route, pid, bodyUsername)
  \/ \E sid \in SessionIds : Deserialized(sid, FALSE)
  \/ \E sid \in SessionIds, throws \in BOOLEAN : StorageDone(sid, throws)

SpecGate == Init /\ [][NextGate]_vars

\* sessions: logins, logouts and requests that need a session
NextSession ==
  \/ \E sid \in SessionIds :
       logins < MaxSignIns /\ LoginBegin(sid, [username |-> "admin", password |-> "secret"])
  \/ \E sid \in SessionIds : VerifyDone(sid, FALSE)
  \/ \E sid \in SessionIds : LogInDone(sid, FALSE)
  \/ \E sid \in SessionIds : LogoutBegin(sid)
  \/ \E sid \in SessionIds, eager \in BOOLEAN : LogoutDeserialized(sid, FALSE, eager)
  \/ \E sid \in SessionIds, outcome \in LogoutOutcomes : LogoutDone(sid, outcome)
  \/ \E sid \in SessionIds, destroyError \in BOOLEAN : DestroyDone(sid, destroyError)
  \/ \E sid \in SessionIds : CurrentUser(sid)
  \/ \E sid \in SessionIds, route \in AdminRoutes :
        AdminRequest(sid, route, Missing, Missing)
  \/ \E sid \in SessionIds : Deserialized(sid, FALSE)
  \/ \E sid \in SessionIds : StorageDone(sid, FALSE)

SpecSession == Init /\ [][NextSession]_vars

\* the resource routes, asked by a client that may log in as admin
NextStore ==
  \/ logins < MaxSignIns /\ LoginBegin("s1", [username |-> "admin", password |-> "secret"])
  \/ VerifyDone("s1", FALSE)
  \/ LogInDone("s1", FALSE)
  \/ \E route \in ResourceRoutes :
       \E req \in ResourceRequests(route) :
         ~req.file /\ ResourceRequest("s1", route, req)
  \/ Deserialized("s1", FALSE)
  \/ UploadDone("s1")
  \/ \E linked \in BOOLEAN : ProductRead("s1", FALSE, linked)
  \/ StorageDone("s1", FALSE)

SpecStore == Init /\ [][NextStore]_vars

\* the upload routes, asked with and without a file by a client before and
\* after it logs in as admin
NextUpload ==
  \/ logins < MaxSignIns /\ LoginBegin("s1", [username |-> "admin", password |-> "secret"])
  \/ VerifyDone("s1", FALSE)
  \/ LogInDone("s1", FALSE)
  \/ \E route \in UploadRoutes :
       \E req \in ResourceRequests(route) : ResourceRequest("s1", route, req)
  \/ Deserialized("s1", FALSE)
  \/ UploadDone("s1")
  \/ ImagesRead("s1", FALSE)
  \/ DemoteDone("s1", FALSE)
  \/ StorageDone("s1", FALSE)

SpecUpload == Init /\ [][NextUpload]_vars

\* requests whose handler gets as far as a storage call, once past the gate
FaultRequests(route) ==
  {req \in ResourceRequests(route) :
     /\ req.body # "invalid"
     /\ req.file = Routes[route].upload
     /\ Routes[route].op = "status" => ~StatusRejected(req.status)
     /\ req.id # UnknownId
     /\ req.productId # 2}

\* storage that throws: under the credential check, under
\* passport.deserializeUser and under every handler; only product images
\* are ever stored
NextFault ==
  \/ \E sid \in SessionIds :
       logins < MaxSignIns /\ LoginBegin(sid, [username |-> "admin", password |-> "secret"])
  \/ \E sid \in SessionIds, throws \in BOOLEAN : VerifyDone(sid, throws)
  \/ \E sid \in SessionIds : LogInDone(sid, FALSE)
  \/ \E route \in AdminRoutes : AdminRequest("s2", route, Missing, Missing)
  \/ \E route \in ResourceRoutes :
       \E req \in FaultRequests(route) : ResourceRequest("s1", route, req)
  \/ \E sid \in SessionIds, throws \in BOOLEAN : Deserialized(sid, throws)
  \/ \E sid \in SessionIds : UploadDone(sid)
  \/ \E sid \in SessionIds, throws \in BOOLEAN, linked \in BOOLEAN :
       ProductRead(sid, throws, linked)
  \/ \E sid \in SessionIds, throws \in BOOLEAN : ImagesRead(sid, throws)
  \/ \E sid \in SessionIds, throws \in BOOLEAN : DemoteDone(sid, throws)
  \/ \E sid \in SessionIds : StorageDone(sid, TRUE)
  \/ \E sid \in SessionIds :
       /\ calls[sid].route = "POST /api/admin/product-images"
       /\ StorageDone(sid, FALSE)

SpecFault == Init /\ [][NextFault]_vars

\* logins of two accounts from two clients, also with the session of one
\* account and the username of the other
NextAuthed ==
  \/ \E sid \in SessionIds, body \in AuthedBodies : LoginBegin(sid, body)
  \/ \E sid \in SessionIds : Deserialized(sid, FALSE)
  \/ \E sid \in SessionIds : VerifyDone(sid, FALSE)
  \/ \E sid \in SessionIds : LogInDone(sid, FALSE)

SpecAuthed == Init /\ [][NextAuthed]_vars

\* the admin Settings page in one browser
NextSettings ==
  \/ \E refetch \in BOOLEAN : Mount(refetch)
  \/ Unmount
  \/ \E data \in SettingsData : QueryDone(data)
  \/ \E tab \in Forms : SetTab(tab)
  \/ \E f \in Forms, v \in TypedValues : EditField(f, v)
  \/ \E n \in NamedFields, v \in TypedValues : EditNamed(n, v)
  \/ Render
  \/ \E b \in SaveButtons : ClickSave(b)
  \/ \E which \in Settles, ok \in BOOLEAN : SaveSettled(which, ok)

SpecSettings == Init /\ [][NextSettings]_vars

\* the tracker under logins for two usernames, one of which no account has
NextTracked ==
  \/ \E d \in TickSteps : Tick(d)
  \/ \E sid \in SessionIds, body \in TrackedBodies : LoginBegin(sid, body)
  \/ \E sid \in SessionIds : Deserialized(sid, FALSE)
  \/ \E sid \in SessionIds : VerifyDone(sid, FALSE)
  \/ \E sid \in SessionIds : LogInDone(sid, FALSE)

SpecTracked == Init /\ [][NextTracked]_vars

\* ------------------------------------------------------------------ claims
IsLogin(r) == r.route = "POST /api/login"

\* the body of a POST /api/login in flight
CallBody(c) == [username |-> c.username, password |-> c.password]
UserIdOf(username) ==
  IF \E u \in Users : u.username = username
    THEN (CHOOSE u \in Users : u.username = username).id
    ELSE 0

\* C1: within 15 minutes of the 5th consecutive failed login for a username,
\* every further POST /api/login for it is answered 429, whatever the
\* password. Stated for requests that carry no authenticated session.
C1_LateLoginAnswered429 ==
  [][\A sid \in SessionIds, body \in LoginBodies :
       ( /\ LoginBegin(sid, body)
         /\ body.username # Missing /\ body.password # Missing
         /\ sessions[sid] = 0
         /\ Late(body.username) )
       => (resp'.status = 429 /\ resp'.sid = sid /\ pending' = pending)]_vars

\* C2 as written: once the lockout window of a locked username has elapsed, a
\* POST /api/login with correct credentials for it is answered 200, creates
\* the session and leaves no failure record.
C2_Original ==
  (IsLogin(resp) /\ resp.parsed /\ resp.valid /\ resp.expired)
    => /\ resp.status = 200
       /\ resp.session = UserIdOf(resp.username)
       /\ resp.record = NoAttempts

\* C2 (amended): once the lockout window of a locked username has elapsed, a
\* POST /api/login with correct credentials for it, sent without an already
\* authenticated session, is answered 200, creates the session and leaves no
\* failure record, unless the credential check or req.logIn throws: then it
\* is answered 500 and no session is created.
C2_LoginAfterLockout ==
  (IsLogin(resp) /\ resp.parsed /\ resp.valid /\ resp.expired /\ resp.caller = 0)
    => \/ /\ resp.status = 200
          /\ resp.checked
          /\ resp.session = UserIdOf(resp.username)
          /\ resp.record = NoAttempts
       \/ /\ resp.status = 500
          /\ resp.session = 0

C2_Witness ==
  /\ IsLogin(resp) /\ resp.parsed /\ resp.valid /\ resp.expired /\ resp.caller = 0
  /\ resp.status = 200
  /\ resp.session = 2
  /\ "ankit" \notin DOMAIN loginAttempts

\* C3: a successful login clears the failure record of its username entirely,
\* and the failed credential check that follows it for that username leaves
\* count 1.
C3_SuccessResetsCounter ==
  [][ /\ (IsLogin(resp') /\ resp'.checked /\ resp'.status = 200)
         => resp'.record = NoAttempts
      /\ \A sid \in SessionIds :
           ( /\ IsLogin(resp) /\ resp.checked /\ resp.status = 200
             /\ VerifyDone(sid, FALSE)
             /\ pending[sid].username = resp.username
             /\ validateUser(pending[sid].username, pending[sid].password) = NoUser )
           => GetAttempts(loginAttempts', resp.username).count = 1 ]_vars

IsAdminRoute(r) == r.route \in AdminRoutes
RoleOf(id) == getUser(id).role
NameOf(id) == getUser(id).username

\* C4: every /api/admin route answers a request without an authenticated
\* session with 401 and does not run its handler.
C4_AdminRoutesAnswer401 ==
  (IsAdminRoute(resp) /\ resp.caller = 0)
    => (resp.status = 401 /\ ~resp.ran /\ resp.body = "")

\* C5: GET /api/admin/users asked by an authenticated session whose role is
\* not super_admin is answered 403 and the user list is not returned.
C5_NonSuperAdminForbidden ==
  ( /\ resp.route = "GET /api/admin/users"
    /\ resp.caller # 0
    /\ RoleOf(resp.caller) # "super_admin" )
    => (resp.status = 403 /\ ~resp.ran /\ resp.body # "users")

C5_Witness ==
  /\ resp.route = "GET /api/admin/users"
  /\ resp.caller = 1
  /\ resp.pid = Missing /\ resp.username = Missing
  /\ resp.status = 403

\* C6: behind the super-admin gate, a request that targets the protected
\* account (params.id '2' or body.username 'ankit') from a caller other than
\* 'ankit' is answered 403 without running the handler, also for a
\* super_admin caller; from the super_admin 'ankit' it passes the gate.
C6_ProtectedAccount ==
  ( /\ IsAdminRoute(resp)
    /\ RouteGate[resp.route] = "isSuperAdmin"
    /\ (resp.pid = "2" \/ resp.username = "ankit") )
    => /\ NameOf(resp.caller) # "ankit" => (resp.status = 403 /\ ~resp.ran)
       /\ (NameOf(resp.caller) = "ankit" /\ RoleOf(resp.caller) = "super_admin")
            => resp.ran

C6_Witness ==
  /\ resp.route = "GET /api/admin/users"
  /\ resp.username = "ankit" /\ resp.pid = Missing
  /\ resp.caller = 3
  /\ RoleOf(resp.caller) = "super_admin"
  /\ resp.status = 403 /\ ~resp.ran

\* C7 as written: a POST /api/login whose body parses ends in 429 without a
\* credential check when the username is locked, else in 200 with a session
\* when the credentials are right, else in 401 with the failure counted; no
\* session is created on the 429 and 401 paths.
C7_Original ==
  (IsLogin(resp) /\ resp.parsed)
    => \/ resp.locked /\ resp.status = 429 /\ ~resp.checked /\ resp.session = resp.caller
       \/ /\ ~resp.locked /\ resp.valid /\ resp.checked
          /\ resp.status = 200 /\ resp.session = UserIdOf(resp.username)
       \/ /\ ~resp.locked /\ ~resp.valid /\ resp.checked
          /\ resp.status = 401 /\ resp.record.count >= 1
          /\ resp.session = resp.caller

\* C7 (amended): a POST /api/login whose body parses ends in exactly one of:
\* when the session is already authenticated, 200 with the session's current
\* user and no credential check, or 500 when loading that user throws;
\* otherwise 429 without a credential check when the username is locked;
\* otherwise 200 with the session created when the credential check
\* succeeds, 401 with a failure record written (locked from count 5 on) when
\* it fails, or 500 when the check or req.logIn throws. No session is created
\* on the 429, 401 and 500 paths.
C7_LoginOutcomes ==
  (IsLogin(resp) /\ resp.parsed)
    => IF resp.caller # 0
         THEN /\ ~resp.checked /\ resp.session = resp.caller
              /\ \/ resp.status = 200 /\ resp.user = resp.caller /\ resp.fault = "none"
                 \/ resp.status = 500 /\ resp.user = 0 /\ resp.fault = "deserialize"
         ELSE IF resp.locked
           THEN resp.status = 429 /\ ~resp.checked /\ resp.session = 0
           ELSE /\ resp.checked
                /\ \/ /\ resp.valid /\ resp.status = 200
                      /\ resp.user = UserIdOf(resp.username)
                      /\ resp.session = UserIdOf(resp.username)
                   \/ /\ ~resp.valid /\ resp.status = 401 /\ resp.session = 0
                      /\ resp.record.count >= 1
                      /\ (resp.record.lockUntil # Undefined)
                           <=> (resp.record.count >= MAX_LOGIN_ATTEMPTS)
                   \/ resp.status = 500 /\ resp.session = 0

C7_Witness ==
  /\ IsLogin(resp) /\ resp.parsed /\ resp.caller = 0
  /\ resp.locked /\ resp.valid
  /\ resp.status = 429 /\ ~resp.checked
  /\ sessions[resp.sid] = 0

\* C8: a POST /api/login whose body fails schema parsing is answered 400
\* before the lockout check and any credential check; it creates no session
\* and changes no login-attempt record.
C8_BadBodyAnswered400 ==
  [][\A sid \in SessionIds :
       /\ \A body \in LoginBodies :
            (LoginBegin(sid, body) /\ sessions[sid] = 0 /\ ~loginSchemaParses(body))
            => /\ resp'.status = 400 /\ resp'.sid = sid /\ ~resp'.checked
               /\ UNCHANGED <<loginAttempts, sessions, pending>>
       /\ ( /\ Deserialized(sid, FALSE)
            /\ calls[sid].route = "POST /api/login"
            /\ ~loginSchemaParses(CallBody(calls[sid])) )
            => /\ resp'.status = 400 /\ resp'.sid = sid /\ ~resp'.checked
               /\ UNCHANGED <<loginAttempts, sessions, pending>> ]_vars

C8_Witness ==
  /\ IsLogin(resp) /\ ~resp.parsed
  /\ resp.username = "ankit" /\ resp.locked
  /\ resp.status = 400 /\ ~resp.checked

\* C9: each failed credential check raises the failure count of its username
\* by exactly 1 (count 1 on the first failure); lock-until is set to the time
\* of that failure plus 15 minutes when the new count has reached 5, and is
\* not set while the count is below 5.
C9_FailureCountsOnce ==
  [][\A sid \in SessionIds :
       ( /\ VerifyDone(sid, FALSE)
         /\ validateUser(pending[sid].username, pending[sid].password) = NoUser )
       => LET u == pending[sid].username
              old == GetAttempts(loginAttempts, u)
              new == GetAttempts(loginAttempts', u)
          IN /\ new.count = old.count + 1
             /\ new.count >= MAX_LOGIN_ATTEMPTS => new.lockUntil = now + LOCK_TIME
             /\ new.count < MAX_LOGIN_ATTEMPTS => new.lockUntil = Undefined]_vars

\* a login attempt for username moves on in this step
AttemptStep(username) ==
  \E sid \in SessionIds :
    /\ pending[sid] # Idle
    /\ pending[sid].username = username
    /\ pending'[sid] # pending[sid]

\* a record whose lockout is over is only changed by a login attempt for its username
NoSweep ==
  \A u \in DOMAIN loginAttempts :
    ( /\ loginAttempts[u].lockUntil # Undefined
      /\ loginAttempts[u].lockUntil <= now
      /\ GetAttempts(loginAttempts', u) # loginAttempts[u] )
    => AttemptStep(u)

\* the request of this step is answered 429 on arrival
Answered429(sid) ==
  resp'.status = 429 /\ resp'.sid = sid /\ pending' = pending

\* the request of this step goes on to the credential check
ProceedsToCheck(sid) ==
  pending'[sid] # Idle /\ pending'[sid].stage = "verify"

\* C10 as written: a login request is answered 429 exactly when it arrives
\* strictly before the lock-until of its username; arriving at or after it,
\* it proceeds to the credential check. An expired record is changed only by
\* a login attempt for its username.
C10_Original ==
  [][ /\ \A sid \in SessionIds, body \in LoginBodies :
           (LoginBegin(sid, body) /\ body.username # Missing /\ body.password # Missing)
           => LET seen == GetAttempts(loginAttempts, body.username) IN
              /\ Answered429(sid) <=> (seen.lockUntil # Undefined /\ now < seen.lockUntil)
              /\ (seen.lockUntil # Undefined /\ now >= seen.lockUntil)
                   => ProceedsToCheck(sid)
      /\ NoSweep ]_vars

\* C10 (amended): a login request that carries no already authenticated
\* session is answered 429 exactly when it arrives strictly before the
\* lock-until of its username; arriving at or after it, it proceeds to the
\* credential check. An expired record is changed only by a login attempt
\* for its username.
C10_LockedWhileBeforeLockUntil ==
  [][ /\ \A sid \in SessionIds, body \in LoginBodies :
           ( /\ LoginBegin(sid, body)
             /\ body.username # Missing /\ body.password # Missing
             /\ sessions[sid] = 0 )
           => LET seen == GetAttempts(loginAttempts, body.username) IN
              /\ Answered429(sid) <=> (seen.lockUntil # Undefined /\ now < seen.lockUntil)
              /\ (seen.lockUntil # Undefined /\ now >= seen.lockUntil)
                   => ProceedsToCheck(sid)
      /\ NoSweep ]_vars

C10_Witness ==
  /\ IsLogin(resp) /\ resp.caller = 0
  /\ resp.expired /\ resp.checked
  /\ resp.status = 401
  /\ resp.record.count = MAX_LOGIN_ATTEMPTS + 1
  /\ now = LOCK_TIME

\* C14: no update of the login-attempt tracker is lost: after N completed
\* failed credential checks for a username with no successful one among them
\* its count is N, and its record is locked as soon as 5 of them have
\* completed (streak counts them, up to 5).
C14_NoLostUpdate ==
  \A u \in LoginNames :
    LET rec == GetAttempts(loginAttempts, u) IN
    /\ streak[u] < MAX_LOGIN_ATTEMPTS => rec.count = streak[u]
    /\ streak[u] = MAX_LOGIN_ATTEMPTS
         => (rec.count >= MAX_LOGIN_ATTEMPTS /\ rec.lockUntil # Undefined)

\* C15: a login request answered 429 (parsed body, no authenticated session,
\* username locked on arrival) starts no credential check and leaves the
\* tracker, the record of its username included, and the sessions unchanged.
C15_LockedRequestLeavesRecord ==
  [][\A sid \in SessionIds, body \in LoginBodies :
       ( /\ LoginBegin(sid, body)
         /\ loginSchemaParses(body)
         /\ sessions[sid] = 0
         /\ SeenLocked(body.username) )
       => /\ resp'.status = 429 /\ resp'.sid = sid /\ ~resp'.checked
          /\ resp'.record = GetAttempts(loginAttempts, body.username)
          /\ UNCHANGED <<loginAttempts, sessions, pending, logins>>]_vars

C15_Witness ==
  /\ IsLogin(resp) /\ resp.status = 429 /\ resp.caller = 0
  /\ ~resp.valid /\ ~resp.checked
  /\ resp.record.count = MAX_LOGIN_ATTEMPTS
  /\ resp.record = GetAttempts(loginAttempts, resp.username)

\* C16: attempts are tracked per submitted username: a login request for one
\* username never changes the record of another, and a username no account
\* has is counted and locked like any other (401 with the failure recorded,
\* the lock set from count 5 on, 429 while it is locked).
C16_TrackedPerUsername ==
  [][ /\ \A u \in Usernames :
           GetAttempts(loginAttempts', u) # GetAttempts(loginAttempts, u)
             => AttemptStep(u)
      /\ ( /\ IsLogin(resp') /\ resp'.parsed /\ resp'.caller = 0
           /\ UserIdOf(resp'.username) = 0 )
           => IF resp'.locked
                THEN resp'.status = 429 /\ ~resp'.checked
                ELSE /\ resp'.status = 401 /\ resp'.checked
                     /\ resp'.record.count >= 1
                     /\ (resp'.record.lockUntil # Undefined)
                          <=> (resp'.record.count >= MAX_LOGIN_ATTEMPTS) ]_vars

C16_Witness ==
  /\ IsLogin(resp) /\ resp.username = "nobody" /\ resp.caller = 0
  /\ resp.status = 429
  /\ GetAttempts(loginAttempts, "nobody").count = MAX_LOGIN_ATTEMPTS
  /\ GetAttempts(loginAttempts, "ankit").count = 1

\* C17: a POST /api/logout answered 200 'Logged out successfully' leaves its
\* session without a user; a session without a user gets one only by a
\* successful login, and until then GET /api/current-user and the routes
\* behind isAuthenticated answer it 401; a logout without an authenticated
\* session is answered 200 'Not logged in' and changes no session.
C17_LogoutEndsSession ==
  [][\A sid \in SessionIds :
       /\ DestroyDone(sid, FALSE)
            => /\ resp'.status = 200 /\ resp'.body = "Logged out successfully"
               /\ resp'.sid = sid
               /\ sessions'[sid] = 0
               /\ \A other \in SessionIds \ {sid} : sessions'[other] = sessions[other]
       /\ (sessions[sid] = 0 /\ sessions'[sid] # 0)
            => (LogInDone(sid, FALSE) /\ IsLogin(resp') /\ resp'.status = 200)
       /\ (sessions[sid] = 0 /\ CurrentUser(sid))
            => (resp'.status = 401 /\ resp'.sid = sid)
       /\ \A route \in AdminRoutes :
            ( /\ sessions[sid] = 0
              /\ RouteGate[route] = "isAuthenticated"
              /\ AdminRequest(sid, route, Missing, Missing) )
            => (resp'.status = 401 /\ resp'.sid = sid /\ ~resp'.ran)
       /\ (sessions[sid] = 0 /\ LogoutBegin(sid))
            => /\ resp'.status = 200 /\ resp'.body = "Not logged in"
               /\ UNCHANGED <<sessions, pending>>]_vars

C17_Witness ==
  /\ resp.route = "POST /api/logout" /\ resp.status = 200
  /\ resp.body = "Logged out successfully"
  /\ resp.sid = "s1" /\ resp.caller # 0
  /\ sessions["s1"] = 0
  /\ sessions["s2"] # 0

\* the request in flight of client sid is answered in this step
Ends(sid) == calls[sid] # NoCall /\ calls'[sid] = NoCall

\* this step answers a request to a resource route; resp' holds what it carried
ResourceStep ==
  /\ resp'.route \in ResourceRoutes
  /\ (resp' # resp \/ \E sid \in SessionIds : Ends(sid))

\* the request of this step is not stopped by the gate of its route
GatePassed ==
  Routes[resp'.route].gate = "none" \/ resp'.caller # 0

\* the storage call of this step's handler returns instead of throwing
StorageReturns == resp'.fault = "none"

\* C11: every create and update handler (POST and PUT of categories,
\* products, product images, hero images, settings, contact requests) checks
\* the body against the resource's schema before it calls storage: a body the
\* schema rejects is answered 400 and nothing is written to storage.
C11_BodyValidatedBeforeStorage ==
  [][ ( /\ ResourceStep /\ GatePassed /\ StorageReturns
        /\ Routes[resp'.route].op \in {"create", "update", "createImage", "upsert"}
        /\ resp'.body = "invalid" )
      => (resp'.status = 400 /\ store' = store) ]_vars

\* the request answered in this step was waiting for storage.getCategory
CategoryStep ==
  \E sid \in SessionIds :
    /\ Ends(sid)
    /\ calls[sid].route = "GET /api/products/:id"
    /\ calls[sid].stage = "storage"

\* a by-id route is answered after the lookup of an id that storage does not
\* hold
ByIdStep ==
  /\ ResourceStep /\ GatePassed /\ StorageReturns
  /\ Routes[resp'.route].op \in {"get", "getProduct", "update", "delete", "status"}
  /\ ~CategoryStep
  /\ ~Holds(store, Routes[resp'.route].coll, resp'.id)

\* C12 as written: on every get, update and delete by id route, a request
\* naming an id that storage does not hold is answered 404 and leaves the
\* stored collections unchanged.
C12_Original ==
  [][ByIdStep => (resp'.status = 404 /\ store' = store)]_vars

\* C12 (amended): on every get, update and delete by id route, a request
\* naming an id that storage does not hold leaves the stored collections
\* unchanged and is answered 404, except on PUT
\* /api/admin/contact-requests/:id/status with a status value that is not
\* accepted, which is answered 400.
C12_AbsenceIs404 ==
  [][ByIdStep
       => /\ store' = store
          /\ IF Routes[resp'.route].op = "status" /\ resp'.value \notin ValidStatuses
               THEN resp'.status = 400
               ELSE resp'.status = 404]_vars

C12_Witness ==
  /\ resp.route = "DELETE /api/admin/categories/:id"
  /\ resp.status = 404 /\ resp.id = UnknownId /\ resp.caller # 0
  /\ Holds(store, "categories", 1)
  /\ ~Holds(store, "categories", UnknownId)

\* C20: PUT /api/admin/contact-requests/:id/status accepts only the status
\* values new, processing, completed, archived: a missing or other value is
\* answered 400 before any lookup, also when the id does not exist, and
\* nothing is changed; with an accepted value and an id storage does not hold
\* it answers 404.
C20_StatusCheckedBeforeLookup ==
  [][ ( /\ ResourceStep /\ GatePassed /\ StorageReturns
        /\ resp'.route = "PUT /api/admin/contact-requests/:id/status" )
      => IF resp'.value \notin ValidStatuses
           THEN resp'.status = 400 /\ store' = store
           ELSE IF ~Holds(store, "contactRequests", resp'.id)
             THEN resp'.status = 404 /\ store' = store
             ELSE /\ resp'.status = 200
                  /\ store'.items["contactRequests"][resp'.id] = resp'.value ]_vars

C20_Witness ==
  /\ resp.route = "PUT /api/admin/contact-requests/:id/status"
  /\ resp.status = 400 /\ resp.value = "done" /\ resp.id = UnknownId
  /\ resp.caller # 0
  /\ Holds(store, "contactRequests", 1)
  /\ store.items["contactRequests"][1] = "new"

\* C13: a storage operation that throws inside a request handler, the
\* credential check of the login handler included, is answered by that
\* handler with 500; the sessions, the login-attempt records and the requests
\* of other clients are left as they were.
C13_StorageFailureIs500 ==
  [][\A sid \in SessionIds :
       /\ VerifyDone(sid, TRUE)
            => /\ resp'.status = 500 /\ resp'.sid = sid
               /\ UNCHANGED <<sessions, loginAttempts, calls>>
               /\ \A other \in SessionIds \ {sid} : pending'[other] = pending[other]
       /\ ( \/ StorageDone(sid, TRUE) \/ ImagesRead(sid, TRUE) \/ DemoteDone(sid, TRUE)
            \/ (\E linked \in BOOLEAN : ProductRead(sid, TRUE, linked)) )
            => /\ resp'.status = 500 /\ resp'.sid = sid /\ resp'.ran
               /\ UNCHANGED <<sessions, loginAttempts, pending>>
               /\ \A other \in SessionIds \ {sid} : calls'[other] = calls[other] ]_vars

C13_Witness ==
  /\ resp.route = "POST /api/admin/products" /\ resp.sid = "s1"
  /\ resp.fault = "storage" /\ resp.body = "valid" /\ resp.caller # 0
  /\ resp.status = 500
  /\ sessions["s2"] # 0

\* C18: on every upload route (categories, product images, hero images,
\* logo) authentication runs before the file is stored: a request without an
\* authenticated session is answered 401 and no file is written.
C18_UploadAfterAuthentication ==
  [][ /\ (ResourceStep /\ resp'.route \in UploadRoutes /\ resp'.caller = 0)
           => /\ resp'.status = 401 /\ ~resp'.ran
              /\ uploads' = uploads
              /\ store' = store
      /\ \A sid \in SessionIds :
           calls'[sid].stage = "upload" => calls'[sid].caller # 0
      /\ uploads' # uploads
           => \E sid \in SessionIds : UploadDone(sid) /\ calls[sid].caller # 0 ]_vars

C18_Witness ==
  /\ resp.route = "POST /api/admin/settings/logo"
  /\ resp.file /\ resp.caller = 0
  /\ resp.status = 401
  /\ uploads = 0

\* the upload routes whose handler asks for req.file
FileRoutes ==
  {"POST /api/admin/product-images", "POST /api/admin/hero-images",
   "POST /api/admin/settings/logo"}

\* C19: an authenticated POST to /api/admin/product-images,
\* /api/admin/hero-images or /api/admin/settings/logo that carries no file is
\* answered 400 and performs no storage operation.
C19_MissingFileAnswered400 ==
  [][ ( /\ ResourceStep /\ resp'.route \in FileRoutes
        /\ resp'.caller # 0 /\ ~resp'.file )
      => /\ resp'.status = 400
         /\ store' = store
         /\ uploads' = uploads ]_vars

C19_Witness ==
  /\ resp.route = "POST /api/admin/product-images"
  /\ ~resp.file /\ resp.body = "valid" /\ resp.caller # 0
  /\ resp.status = 400
  /\ store.items["productImages"] = << >>

\* C23: a POST /api/login that submits a username and a password with an
\* already authenticated session is answered 200 with that session's current
\* user, whatever the username and password are: no credential check is
\* started, a lockout of the submitted username does not matter, and no
\* login-attempt record and no session is changed.
C23_AuthenticatedLoginShortcut ==
  [][\A sid \in SessionIds :
       /\ \A body \in AuthedBodies :
            (LoginBegin(sid, body) /\ sessions[sid] # 0)
            => UNCHANGED <<loginAttempts, sessions, pending, logins, resp>>
       /\ ( /\ Deserialized(sid, FALSE)
            /\ calls[sid].route = "POST /api/login"
            /\ loginSchemaParses(CallBody(calls[sid])) )
            => /\ resp'.status = 200 /\ resp'.sid = sid
               /\ resp'.user = calls[sid].caller
               /\ resp'.username = calls[sid].username
               /\ ~resp'.checked
               /\ UNCHANGED <<loginAttempts, sessions, pending, logins>> ]_vars

\* the session of 'admin' submits a wrong password for the locked 'ankit'
C23_Witness ==
  /\ IsLogin(resp) /\ resp.caller = 1
  /\ resp.username = "ankit" /\ UserIdOf(resp.username) # resp.caller
  /\ resp.locked /\ ~resp.valid
  /\ resp.status = 200 /\ resp.user = resp.caller /\ ~resp.checked
  /\ GetAttempts(loginAttempts, resp.username).count = MAX_LOGIN_ATTEMPTS

\* the settings query finishes loading under a mounted page in this step, or
\* the page mounts on a loaded query
LoadedNow ==
  /\ page'.mounted /\ page'.query.status = "loaded"
  /\ (~page.mounted \/ page.query.status # "loaded")

\* C21: in the admin Settings page, once the settings query has finished
\* loading, the company, contact, social and maps forms hold the loaded
\* values of company_name, company_address, social_facebook and
\* google_maps_url, also when the page was mounted while the query was still
\* loading.
C21_FormsResetOnLoad ==
  [][LoadedNow => page'.forms = ResetForms(page'.query.data)]_vars

\* saves started from the page that are in flight
SavesInFlight == page.mine + page.detached

\* C22 as written: while a setting save is pending every Save button is
\* disabled, so at most one save started from the page is in flight at any
\* time; the buttons are usable again once it has succeeded or failed.
C22_Original ==
  /\ SavesInFlight <= 1
  /\ (page.mounted /\ SavesInFlight > 0) => SaveDisabled(page)
  /\ (page.mounted /\ SavesInFlight = 0) => ~SaveDisabled(page)
====
